---- MODULE Spec2Model ----
(***************************************************************************)
(* Model of scripts/generate-feed.js: the paginated fetchers, the          *)
(* orchestration in main, the metaobject normalizer and the feed           *)
(* serializers.                                                            *)
(*                                                                         *)
(* JavaScript strings are sequences of one-character strings, so that      *)
(* endsWith, startsWith, concatenation and escaping are computed.  A null  *)
(* or undefined where a string may stand is NULL, a sequence whose one     *)
(* element is no character; a null or undefined where an object may stand *)
(* is NULL_OBJECT, a record with none of the properties read.  Object keys *)
(* (field keys, file names, positions of a callback) are TLA+ strings.     *)
(***************************************************************************)
EXTENDS Integers, Sequences, FiniteSets, TLC

\* ------------------------------------------------------------------ bounds
\* Pages an upstream collection holds at most.
MaxPages == 3
\* Records one upstream page holds at most.
MaxPageSize == 2
\* Fields a metaobject holds at most.
MaxFields == 2
\* Tags an article holds at most.
MaxTags == 2

\* ------------------------------------------------------------------- state
\* The run of main.
VARIABLES
    env,        \* process.env: SHOPIFY_STORE_DOMAIN, STOREFRONT_ACCESS_TOKEN
    upstream,   \* per fetch, the pages the Storefront API holds
    pc,         \* position of main
    fpc,        \* per fetch, the position of its fetchAll* call
    cursor,     \* per fetch, its local variable cursor
    acc,        \* per fetch, its accumulator (allArticles, allPages, allMetaobjects)
    log,        \* per fetch, the delays it completed and the requests it issued
    served,     \* per fetch, the responses the API gave it
    written,    \* the feed files written, in the order written
    exitStatus  \* empty while the process runs, then << its exit status >>

orchVars == <<env, upstream, pc, fpc, cursor, acc, log, served, written, exitStatus>>

\* A call of normalizeMetaobject.
VARIABLES
    inMetaobject,   \* the metaobject handed to normalizeMetaobject
    inType,         \* its type argument
    inPathSegment,  \* its pathSegment option, NULL when not given
    item            \* the NormalizedItem returned, NULL_OBJECT before the call

normVars == <<inMetaobject, inType, inPathSegment, item>>

\* A call of a feed serializer.
VARIABLES
    feedKind,    \* the serializer called: "blog", "pages" or "metaobjects"
    records,     \* the records handed to it
    feed         \* empty before the call, then << the item blocks it returned >>

xmlVars == <<feedKind, records, feed>>

vars == <<orchVars, normVars, xmlVars>>

\* --------------------------------------------------------- JavaScript values
NULL == <<"null">>

NULL_OBJECT == [null |-> TRUE]

\* JavaScript truthiness of a string-or-null value.
Truthy(v) == v # NULL /\ v # <<>>

\* a || b
Or(a, b) == IF Truthy(a) THEN a ELSE b

RECURSIVE Concat(_)
\* The concatenation of a sequence of sequences.
Concat(ss) == IF ss = <<>> THEN <<>> ELSE Head(ss) \o Concat(Tail(ss))

\* edges.map(edge => edge.node)
NodesOf(edges) == [i \in DOMAIN edges |-> edges[i].node]

\* ------------------------------------------------------------ string values
\* text.startsWith(prefix)
StartsWith(text, prefix) ==
    Len(text) >= Len(prefix) /\ SubSeq(text, 1, Len(prefix)) = prefix

\* text.endsWith(suffix)
EndsWith(text, suffix) ==
    Len(text) >= Len(suffix)
    /\ SubSeq(text, Len(text) - Len(suffix) + 1, Len(text)) = suffix

\* A template literal or join slot: null and undefined join as the empty string.
JoinSlot(v) == IF v = NULL THEN <<>> ELSE v

RECURSIVE Join(_, _)
\* array.join(sep)
Join(values, sep) ==
    IF values = <<>> THEN <<>>
    ELSE IF Len(values) = 1 THEN JoinSlot(values[1])
    ELSE JoinSlot(values[1]) \o sep \o Join(Tail(values), sep)

\* obj?.key where a string may stand: undefined when the object is null or
\* has no such property.
Get(obj, key) == IF key \in DOMAIN obj THEN obj[key] ELSE NULL

\* obj?.key where an object may stand.
GetObject(obj, key) == IF key \in DOMAIN obj THEN obj[key] ELSE NULL_OBJECT

\* const SITE_URL = 'https://latitudes.online'
SITE_URL == <<"h","t","t","p","s",":","/","/","l","a","t","i","t","u","d","e","s",".","o","n","l","i","n","e">>

\* --------------------------------------------------- metaobject normalizer
METAOBJECT_FIELD_DEFAULTS ==
    [title |-> <<"title", "name", "heading">>,
     description |-> <<"description", "summary", "bio", "body">>,
     link |-> <<"link", "url", "website", "cta_url">>,
     image |-> <<"image", "hero_image", "poster", "logo">>]

TYPE_EXHIBITOR == <<"e","x","h","i","b","i","t","o","r">>
TYPE_SHOW == <<"s","h","o","w">>

METAOBJECT_TYPE_HINTS ==
    [t \in {TYPE_EXHIBITOR, TYPE_SHOW} |->
        IF t = TYPE_EXHIBITOR
        THEN [title |-> <<"store_name">>,
              description |-> <<"store_description">>,
              link |-> <<"website", "url", "link">>,
              image |-> <<"store_logo_thumbnail", "store_artwork_image_thumbnail">>]
        ELSE [title |-> <<"title">>,
              description |-> <<"show_description">>,
              link |-> <<"url", "link">>,
              image |-> <<"show_thumbnail", "show_banner">>]]

\* METAOBJECT_TYPE_HINTS[type] || {}
HintsOf(type) ==
    IF type \in DOMAIN METAOBJECT_TYPE_HINTS THEN METAOBJECT_TYPE_HINTS[type] ELSE <<>>

\* hints.slot || []
HintKeys(hints, slot) == IF slot \in DOMAIN hints THEN hints[slot] ELSE <<>>

\* fields.reduce((acc, field) => { acc[field.key] = field; return acc }, {}):
\* the last field of a key is the one kept.
buildFieldLookup(fields) ==
    [k \in {fields[i].key : i \in DOMAIN fields} |->
        fields[CHOOSE i \in DOMAIN fields :
                  /\ fields[i].key = k
                  /\ \A j \in DOMAIN fields : fields[j].key = k => j <= i]]

RECURSIVE getFieldValue(_, _)
\* The value of the first key whose field exists and whose value is neither
\* null nor undefined; null when there is none.
getFieldValue(fieldLookup, keys) ==
    IF keys = <<>> THEN NULL
    ELSE LET field == GetObject(fieldLookup, Head(keys))
         IN IF field # NULL_OBJECT /\ field.value # NULL
            THEN field.value
            ELSE getFieldValue(fieldLookup, Tail(keys))

MIME_IMAGE_PREFIX == <<"i","m","a","g","e","/">>

\* An extraction that takes a generic file of any mime type.
getImageUrlFromFieldAnyMime(field) ==
    LET ref == GetObject(field, "reference")
    IN IF ref = NULL_OBJECT THEN NULL
       ELSE IF Truthy(Get(GetObject(ref, "image"), "url")) THEN ref.image.url
       ELSE IF Truthy(Get(ref, "url")) THEN ref.url
       ELSE NULL

getImageUrlFromField(field) ==
    LET ref == GetObject(field, "reference")
    IN IF ref = NULL_OBJECT THEN NULL
       ELSE IF Truthy(Get(GetObject(ref, "image"), "url")) THEN ref.image.url
       ELSE IF /\ Truthy(Get(ref, "url"))
               /\ Get(ref, "mimeType") # NULL
               /\ StartsWith(ref.mimeType, MIME_IMAGE_PREFIX)
            THEN ref.url
       ELSE NULL

RECURSIVE firstImageUrl(_, _)
\* The loop over imageKeys: the URL of the first key whose field exists and
\* yields one.
firstImageUrl(lookup, keys) ==
    IF keys = <<>> THEN NULL
    ELSE LET imageUrl == IF GetObject(lookup, Head(keys)) # NULL_OBJECT
                         THEN getImageUrlFromField(lookup[Head(keys)])
                         ELSE NULL
         IN IF Truthy(imageUrl) THEN imageUrl ELSE firstImageUrl(lookup, Tail(keys))

\* A segment that is always derived from the type.
defaultSegmentFromType(type, pathSegment) ==
    IF EndsWith(type, <<"s">>) THEN type ELSE type \o <<"s">>

\* pathSegment || (type.endsWith('s') ? type : `${type}s`)
defaultSegment(type, pathSegment) ==
    Or(pathSegment, IF EndsWith(type, <<"s">>) THEN type ELSE type \o <<"s">>)

\* A link default that leaves the site base URL out.
defaultLinkRelative(segment, handle) == <<"/">> \o segment \o <<"/">> \o handle

\* `${SITE_URL}/${defaultSegment}/${metaobject.handle}`
defaultLink(segment, handle) == SITE_URL \o <<"/">> \o segment \o <<"/">> \o handle

normalizeMetaobject(metaobject, type, pathSegment) ==
    LET lookup == buildFieldLookup(metaobject.fields)
        hints == HintsOf(type)
        segment == defaultSegment(type, pathSegment)
        title ==
            Or(Or(getFieldValue(lookup, HintKeys(hints, "title")),
                  getFieldValue(lookup, METAOBJECT_FIELD_DEFAULTS.title)),
               metaobject.handle)
        description ==
            Or(Or(getFieldValue(lookup, HintKeys(hints, "description")),
                  getFieldValue(lookup, METAOBJECT_FIELD_DEFAULTS.description)),
               Join([i \in DOMAIN metaobject.fields |-> metaobject.fields[i].value], <<" ">>))
        link ==
            Or(Or(getFieldValue(lookup, HintKeys(hints, "link")),
                  getFieldValue(lookup, METAOBJECT_FIELD_DEFAULTS.link)),
               defaultLink(segment, metaobject.handle))
        imageKeys == HintKeys(hints, "image") \o METAOBJECT_FIELD_DEFAULTS.image
    IN [id |-> type \o <<"_">> \o metaobject.handle,
        title |-> title,
        description |-> description,
        link |-> link,
        imageUrl |-> firstImageUrl(lookup, imageKeys),
        updatedAt |-> metaobject.updatedAt,
        type |-> type]

\* ------------------------------------------------------------ orchestration

\* The four fetches main fans out, in the order of its Promise.all.
Fetches == {"articles", "pages", "exhibitor", "shows"}

\* fetchAllMetaobjects, as against fetchAllArticles and fetchAllPages.
IsMetaobjectFetch(f) == f \in {"exhibitor", "shows"}

\* The four output files, in the order main writes them.
FEEDS == << "doofinder-blogs-feed.xml", "doofinder-pages-feed.xml",
            "doofinder-exhibitors-feed.xml", "doofinder-shows-feed.xml" >>

\* What the API can answer to one request: a page of the collection, a
\* non-success HTTP status, a body with an errors list, a body without the
\* collection asked for.
Outcomes == {"page", "http_error", "graphql_errors", "missing_collection"}

\* The upstream collections of n pages with sizes drawn from sizes: page i holds
\* the records <<i, 1>> .. <<i, size>>, reports a next page unless it is the
\* last, and gives as its cursor the string of i marks.
CursorOf(i) == [k \in 1..i |-> "c"]

PageOf(i, size, n) ==
    [edges |-> [j \in 1..size |-> [node |-> <<i, j>>]],
     pageInfo |-> [hasNextPage |-> i < n, endCursor |-> CursorOf(i)]]

Collections(sizes) ==
    UNION {{[i \in 1..n |-> PageOf(i, sz[i], n)] : sz \in [1..n -> sizes]} : n \in 1..MaxPages}

\* The page the API serves for a request carrying cursor c: the first page for
\* a null cursor, the page after the one that gave c otherwise.
ServePage(coll, c) ==
    LET i == IF c = NULL THEN 1 ELSE Len(c) + 1
    IN IF i \in DOMAIN coll THEN coll[i]
       ELSE [edges |-> <<>>, pageInfo |-> [hasNextPage |-> FALSE, endCursor |-> NULL]]

\* The cursors of the requests in a fetch's log, in the order issued.
RequestsOf(l) ==
    LET reqs == SelectSeq(l, LAMBDA e : e.kind = "request")
    IN [i \in DOMAIN reqs |-> reqs[i].cursor]

\* env values a shell can give: unset, set to the empty string, set.
EnvValues == {NULL, <<>>, <<"x">>}

\* Either all four collections have one record per page, or one of them is
\* arbitrary and the others hold a single empty page.
UpstreamChoices ==
    [Fetches -> Collections({1})]
    \cup UNION {{[f \in Fetches |-> IF f = g THEN c ELSE <<PageOf(1, 0, 1)>>]
                    : c \in Collections(0..MaxPageSize)} : g \in Fetches}

InitOrch ==
    /\ env \in [domain : EnvValues, token : EnvValues]
    /\ upstream \in UpstreamChoices
    /\ pc = "start"
    /\ fpc = [f \in Fetches |-> "idle"]
    /\ cursor = [f \in Fetches |-> NULL]
    /\ acc = [f \in Fetches |-> <<>>]
    /\ log = [f \in Fetches |-> <<>>]
    /\ served = [f \in Fetches |-> <<>>]
    /\ written = <<>>
    /\ exitStatus = <<>>

\* A check that passes as soon as one of the two values is set.
ConfigBothMissing(e) == ~Truthy(e.domain) /\ ~Truthy(e.token)

\* if (!SHOPIFY_STORE_DOMAIN || !STOREFRONT_ACCESS_TOKEN)
ConfigMissing(e) == ~Truthy(e.domain) \/ ~Truthy(e.token)

\* A catch clause that reports the error and lets the run go on.
ReportAndGoOn ==
    /\ pc' = pc
    /\ exitStatus' = exitStatus

\* catch (error) { ...; process.exit(1) }: the run ends with status 1.
Abort ==
    /\ pc' = "exited"
    /\ exitStatus' = <<1>>

\* A loop that never waits.
LoopEntryNoDelay(f) == "await"

\* The position a fetch takes when it enters an iteration of its while loop:
\* fetchAllMetaobjects first awaits delay(500); fetchAllArticles and
\* fetchAllPages call fetchShopifyData at once.
LoopEntry(f) == IF IsMetaobjectFetch(f) THEN "delay" ELSE "await"

\* The log of a fetch after it entered a loop iteration with cursor c: a fetch
\* that goes straight to fetchShopifyData has issued its request.
LogAtEntry(f, l, c) ==
    IF LoopEntry(f) = "await" THEN Append(l, [kind |-> "request", cursor |-> c]) ELSE l

\* main up to its await of Promise.all: the configuration check, then the four
\* fetchAll* calls, each run synchronously up to its first await.
MainStart ==
    /\ pc = "start"
    /\ IF ConfigMissing(env)
       THEN /\ Abort
            /\ UNCHANGED <<fpc, log>>
       ELSE /\ pc' = "fetching"
            /\ fpc' = [f \in Fetches |-> LoopEntry(f)]
            /\ log' = [f \in Fetches |-> LogAtEntry(f, log[f], cursor[f])]
            /\ UNCHANGED exitStatus
    /\ UNCHANGED <<env, upstream, cursor, acc, served, written>>
    /\ UNCHANGED <<normVars, xmlVars>>

\* The timer of delay(500) fires: the fetch resumes and calls fetchShopifyData
\* with its cursor.
DelayElapsed(f) ==
    /\ pc = "fetching"
    /\ fpc[f] = "delay"
    /\ fpc' = [fpc EXCEPT ![f] = "await"]
    /\ log' = [log EXCEPT ![f] = log[f] \o << [kind |-> "delay"],
                                              [kind |-> "request", cursor |-> cursor[f]] >>]
    /\ UNCHANGED <<env, upstream, pc, cursor, acc, served, written, exitStatus>>
    /\ UNCHANGED <<normVars, xmlVars>>

\* A Promise.all that resolved as soon as one fetch returned.
AnyFetched(p) == \E f \in Fetches : p[f] = "done"

\* Promise.all resolves once every fetch has returned.
AllFetched(p) == \A f \in Fetches : p[f] = "done"

\* An accumulation that puts the new page in front.
AccumulateInFront(all, edges) == NodesOf(edges) \o all

\* allArticles = allArticles.concat(edges.map(edge => edge.node)), and the same
\* statement of fetchAllPages and fetchAllMetaobjects.
Accumulate(all, edges) == all \o NodesOf(edges)

\* fetchShopifyData throws on a non-success status and on an errors list;
\* fetchAllMetaobjects throws when data.metaobjects is missing, and
\* fetchAllArticles and fetchAllPages throw a TypeError destructuring it.
Throws(outcome) == outcome # "page"

\* A response arrives for the request a fetch awaits.  A failure rejects the
\* fetch, Promise.all and main's await in one run of the microtask queue, so
\* the catch clause exits before any other callback runs.  A page is
\* accumulated; the loop then either iterates or returns, and the return of
\* the last fetch resumes main.
Response(f) ==
    /\ pc = "fetching"
    /\ fpc[f] = "await"
    /\ \E outcome \in Outcomes :
        /\ served' = [served EXCEPT ![f] = Append(served[f], outcome)]
        /\ IF Throws(outcome)
           THEN /\ fpc' = [fpc EXCEPT ![f] = "failed"]
                /\ Abort
                /\ UNCHANGED <<cursor, acc, log>>
           ELSE LET page == ServePage(upstream[f], log[f][Len(log[f])].cursor)
                    next == IF page.pageInfo.hasNextPage THEN LoopEntry(f) ELSE "done"
                IN /\ acc' = [acc EXCEPT ![f] = Accumulate(acc[f], page.edges)]
                   /\ cursor' = [cursor EXCEPT ![f] = page.pageInfo.endCursor]
                   /\ fpc' = [fpc EXCEPT ![f] = next]
                   /\ log' = [log EXCEPT ![f] =
                                 IF page.pageInfo.hasNextPage
                                 THEN LogAtEntry(f, log[f], page.pageInfo.endCursor)
                                 ELSE log[f]]
                   /\ pc' = IF AllFetched(fpc') THEN "normalize" ELSE pc
                   /\ UNCHANGED exitStatus
    /\ UNCHANGED <<env, upstream, written>>
    /\ UNCHANGED <<normVars, xmlVars>>

\* The two map(normalizeMetaobject) calls: they return, or one throws.
Normalize ==
    /\ pc = "normalize"
    /\ \E ok \in BOOLEAN :
        IF ok THEN pc' = "write" /\ UNCHANGED exitStatus ELSE Abort
    /\ UNCHANGED <<env, upstream, fpc, cursor, acc, log, served, written>>
    /\ UNCHANGED <<normVars, xmlVars>>

\* The file main writes next.
NextFeed(w) == FEEDS[Len(w) + 1]

\* One generate*XML call and its fs.writeFileSync: the file is written, or one
\* of the two throws.
WriteFeed ==
    /\ pc = "write"
    /\ \E ok \in BOOLEAN :
        IF ok
        THEN /\ written' = Append(written, NextFeed(written))
             /\ pc' = IF Len(written') = Len(FEEDS) THEN "report" ELSE pc
             /\ UNCHANGED exitStatus
        ELSE Abort /\ UNCHANGED written
    /\ UNCHANGED <<env, upstream, fpc, cursor, acc, log, served>>
    /\ UNCHANGED <<normVars, xmlVars>>

\* The report of counts and sizes: main returns and the process ends with
\* status 0, or fs.statSync throws.
Report ==
    /\ pc = "report"
    /\ \E ok \in BOOLEAN :
        IF ok THEN pc' = "exited" /\ exitStatus' = <<0>> ELSE Abort
    /\ UNCHANGED <<env, upstream, fpc, cursor, acc, log, served, written>>
    /\ UNCHANGED <<normVars, xmlVars>>


\* ------------------------------------------------- normalizer, as a machine

TEXT_A == <<"A">>
TEXT_URL == <<"h","t","t","p","s",":","/","/","a",".","i","o">>
TEXT_GID == <<"g">>
IMG_URL == <<"h","t","t","p","s",":","/","/","x","/","i","m","g",".","p","n","g">>
PNG_URL == <<"h","t","t","p","s",":","/","/","x","/","f",".","p","n","g">>
PDF_URL == <<"h","t","t","p","s",":","/","/","x","/","f",".","p","d","f">>
MIME_PNG == <<"i","m","a","g","e","/","p","n","g">>
MIME_PDF == <<"a","p","p","l","i","c","a","t","i","o","n","/","p","d","f">>
TYPE_NEWS == <<"n","e","w","s">>
HANDLE_OPERA == <<"o","p","e","r","a","-","n","i","g","h","t">>
SEGMENT_SHOWS == <<"p","a","g","e","s","/","s","h","o","w","s">>

\* Scalar values of a text field: null, the empty string, a word, a URL.
TextValues == {NULL, <<>>, TEXT_A, TEXT_URL}

\* Keys of text fields: hinted and generic candidates of the title, the
\* description and the link.
TextKeys == {"store_name", "title", "store_description", "description",
             "website", "link", "url"}

\* Keys of media fields: a hinted and a generic candidate of the image.
MediaKeys == {"store_logo_thumbnail", "image"}

\* References of a media field: none, a MediaImage, a GenericFile that is an
\* image, a GenericFile that is not, and an object carrying both shapes.
References ==
    {NULL_OBJECT,
     [image |-> [url |-> IMG_URL, altText |-> NULL]],
     [url |-> PNG_URL, mimeType |-> MIME_PNG],
     [url |-> PDF_URL, mimeType |-> MIME_PDF],
     [image |-> [url |-> IMG_URL, altText |-> NULL], url |-> PNG_URL, mimeType |-> MIME_PNG]}

FieldPool ==
    {[key |-> k, value |-> v, reference |-> NULL_OBJECT] : k \in TextKeys, v \in TextValues}
    \cup {[key |-> k, value |-> TEXT_GID, reference |-> r] : k \in MediaKeys, r \in References}

FieldLists == UNION {[1..n -> FieldPool] : n \in 0..MaxFields}

\* Types with hints, and one without that ends in "s".
Types == {TYPE_EXHIBITOR, TYPE_SHOW, TYPE_NEWS}

OrchIdle ==
    /\ env = [domain |-> NULL, token |-> NULL]
    /\ upstream = [f \in Fetches |-> <<>>]
    /\ pc = "idle"
    /\ fpc = [f \in Fetches |-> "idle"]
    /\ cursor = [f \in Fetches |-> NULL]
    /\ acc = [f \in Fetches |-> <<>>]
    /\ log = [f \in Fetches |-> <<>>]
    /\ served = [f \in Fetches |-> <<>>]
    /\ written = <<>>
    /\ exitStatus = <<>>

NormIdle ==
    /\ inMetaobject = NULL_OBJECT
    /\ inType = NULL
    /\ inPathSegment = NULL
    /\ item = NULL_OBJECT

InitNorm ==
    /\ inMetaobject \in [handle : {HANDLE_OPERA}, updatedAt : {NULL}, fields : FieldLists]
    /\ inType \in Types
    /\ inPathSegment \in {NULL, SEGMENT_SHOWS}
    /\ item = NULL_OBJECT

\* One call of normalizeMetaobject.
NormalizeCall ==
    /\ inMetaobject # NULL_OBJECT
    /\ item = NULL_OBJECT
    /\ item' = normalizeMetaobject(inMetaobject, inType, inPathSegment)
    /\ UNCHANGED <<inMetaobject, inType, inPathSegment>>
    /\ UNCHANGED <<orchVars, xmlVars>>

\* --------------------------------------------------------- content sanitizer
RECURSIVE ReplaceAll(_, _, _)
\* text.replace(/pattern/g, replacement) for a literal pattern: the matches
\* are taken from left to right and do not overlap.
ReplaceAll(text, pattern, replacement) ==
    IF text = <<>> THEN <<>>
    ELSE IF StartsWith(text, pattern)
         THEN replacement \o ReplaceAll(SubSeq(text, Len(pattern) + 1, Len(text)),
                                        pattern, replacement)
         ELSE <<Head(text)>> \o ReplaceAll(Tail(text), pattern, replacement)

RECURSIVE StripTags(_)
\* text.replace(/<[^>]*>/g, ' '): a "<" and all up to the next ">" become one
\* space; a "<" that no ">" follows stays.
StripTags(text) ==
    IF text = <<>> THEN <<>>
    ELSE IF Head(text) = "<" /\ \E j \in 2..Len(text) : text[j] = ">"
         THEN LET close == CHOOSE j \in 2..Len(text) :
                              text[j] = ">" /\ \A k \in 2..(j - 1) : text[k] # ">"
              IN <<" ">> \o StripTags(SubSeq(text, close + 1, Len(text)))
         ELSE <<Head(text)>> \o StripTags(Tail(text))

\* The characters \s matches, among those the model's texts hold.
IsSpace(ch) == ch \in {" ", "\n", "\t"}

RECURSIVE CollapseSpaces(_)
\* text.replace(/\s+/g, ' ')
CollapseSpaces(text) ==
    IF text = <<>> THEN <<>>
    ELSE IF IsSpace(Head(text))
         THEN IF Len(text) > 1 /\ IsSpace(text[2])
              THEN CollapseSpaces(Tail(text))
              ELSE <<" ">> \o CollapseSpaces(Tail(text))
         ELSE <<Head(text)>> \o CollapseSpaces(Tail(text))

RECURSIVE Trim(_)
\* text.trim()
Trim(text) ==
    IF text = <<>> THEN <<>>
    ELSE IF IsSpace(Head(text)) THEN Trim(Tail(text))
    ELSE IF IsSpace(text[Len(text)]) THEN Trim(SubSeq(text, 1, Len(text) - 1))
    ELSE text

cleanContent(html) ==
    IF ~Truthy(html) THEN <<>>
    ELSE LET t1 == StripTags(html)
             t2 == ReplaceAll(t1, <<"&","n","b","s","p",";">>, <<" ">>)
             t3 == ReplaceAll(t2, <<"&","a","m","p",";">>, <<"&">>)
             t4 == ReplaceAll(t3, <<"&","l","t",";">>, <<"<">>)
             t5 == ReplaceAll(t4, <<"&","g","t",";">>, <<">">>)
             t6 == ReplaceAll(t5, <<"&","q","u","o","t",";">>, <<"\"">>)
             t7 == ReplaceAll(t6, <<"&","#","3","9",";">>, <<"'">>)
         IN Trim(CollapseSpaces(t7))

escapeXml(text) ==
    IF ~Truthy(text) THEN <<>>
    ELSE LET t1 == ReplaceAll(text, <<"&">>, <<"&","a","m","p",";">>)
             t2 == ReplaceAll(t1, <<"<">>, <<"&","l","t",";">>)
             t3 == ReplaceAll(t2, <<">">>, <<"&","g","t",";">>)
             t4 == ReplaceAll(t3, <<"\"">>, <<"&","q","u","o","t",";">>)
         IN ReplaceAll(t4, <<"'">>, <<"&","a","p","o","s",";">>)

\* ------------------------------------------------------------ feed serializer
DATE_ISO == <<"2","0","2","4","-","0","1","-","0","2","T","0","3",":","0","4",":","0","5","Z">>
DATE_UTC == <<"T","u","e",","," ","0","2"," ","J","a","n"," ","2","0","2","4"," ","0","3",":","0","4",":","0","5"," ","G","M","T">>
DATE_INVALID == <<"I","n","v","a","l","i","d"," ","D","a","t","e">>

\* new Date(text).toUTCString(): the RFC 1123 text of a timestamp that parses,
\* "Invalid Date" for a text that does not.
toUTCString(text) == IF text = DATE_ISO THEN DATE_UTC ELSE DATE_INVALID

\* One element of an item block: `      <tag>content</tag>\n`.
Element(tag, content) == [tag |-> tag, content |-> content]

\* The element a serializer adds when its condition holds.
When(cond, element) == IF cond THEN <<element>> ELSE <<>>

\* if (article.tags && article.tags.length > 0) article.tags.forEach(...)
categoryElements(tags) ==
    IF Len(tags) > 0
    THEN [i \in DOMAIN tags |-> Element("category", escapeXml(tags[i]))]
    ELSE <<>>

\* The item block generateBlogXML writes for one article.
blogItem(article) ==
    LET url == SITE_URL \o <<"/","b","l","o","g","s","/">> \o JoinSlot(article.blog.handle) \o <<"/">>
               \o JoinSlot(article.handle)
        description == cleanContent(Or(article.excerpt, article.contentHtml))
        imageUrl == Or(Get(article.image, "url"), <<>>)
    IN << Element("g:id", <<"b","l","o","g","_">> \o JoinSlot(article.handle)),
          Element("title", escapeXml(article.title)),
          Element("link", escapeXml(url)),
          Element("description", escapeXml(description)),
          Element("g:type", <<"b","l","o","g","_","a","r","t","i","c","l","e">>) >>
       \o When(Truthy(imageUrl), Element("g:image_link", escapeXml(imageUrl)))
       \o When(Truthy(article.publishedAt),
               Element("pubDate", toUTCString(article.publishedAt)))
       \o When(Truthy(Get(article.author, "name")),
               Element("author", escapeXml(Get(article.author, "name"))))
       \o categoryElements(article.tags)

\* The item block generatePagesXML writes for one page.
pageItem(page) ==
    LET url == SITE_URL \o <<"/","p","a","g","e","s","/">> \o JoinSlot(page.handle)
        description == cleanContent(Or(page.bodySummary, page.body))
    IN << Element("g:id", <<"p","a","g","e","_">> \o JoinSlot(page.handle)),
          Element("title", escapeXml(page.title)),
          Element("link", escapeXml(url)),
          Element("description", escapeXml(description)),
          Element("g:type", <<"c","m","s","_","p","a","g","e">>) >>
       \o When(Truthy(page.updatedAt), Element("pubDate", toUTCString(page.updatedAt)))

\* The item block generateMetaobjectsXML writes for one normalized item.
metaobjectItem(it, type) ==
    << Element("g:id", escapeXml(it.id)),
       Element("title", escapeXml(it.title)),
       Element("link", escapeXml(it.link)),
       Element("description", escapeXml(cleanContent(it.description))),
       Element("g:type", JoinSlot(type)) >>
    \o When(Truthy(it.imageUrl), Element("g:image_link", escapeXml(it.imageUrl)))
    \o When(Truthy(it.updatedAt), Element("pubDate", toUTCString(it.updatedAt)))

\* The item blocks of the three serializers, in the order of the records; the
\* XML declaration and the channel header are fixed text and are left out.
generateBlogXML(articles) == [i \in DOMAIN articles |-> blogItem(articles[i])]

generatePagesXML(pages) == [i \in DOMAIN pages |-> pageItem(pages[i])]

generateMetaobjectsXML(items, type) ==
    [i \in DOMAIN items |-> metaobjectItem(items[i], type)]

\* ------------------------------------------------- serializers, as a machine

TEXT_MARKUP == <<"<","p",">","a"," ","&","a","m","p",";"," ","b","<","/","p",">">>
TEXT_AUTHOR == <<"A","n","n">>
TEXT_TAG == <<"a","r","t">>
TEXT_TAG_AMP == <<"a","&","b">>
HANDLE_POST == <<"p","o","s","t">>
HANDLE_NEWS == <<"n","e","w","s">>

\* Timestamps a record can carry: none, the empty string, one that parses and
\* one that does not.
Timestamps == {NULL, <<>>, DATE_ISO, TEXT_A}

TagLists == UNION {[1..n -> {<<>>, TEXT_TAG, TEXT_TAG_AMP}] : n \in 0..MaxTags}

Articles ==
    [handle : {HANDLE_POST}, title : {TEXT_A}, excerpt : {NULL}, contentHtml : {TEXT_MARKUP},
     blog : {[handle |-> HANDLE_NEWS]},
     publishedAt : Timestamps,
     image : {NULL_OBJECT, [url |-> <<>>, altText |-> NULL], [url |-> IMG_URL, altText |-> NULL]},
     author : {NULL_OBJECT, [name |-> NULL], [name |-> <<>>], [name |-> TEXT_AUTHOR]},
     tags : TagLists]

Pages ==
    [handle : {HANDLE_POST}, title : {TEXT_A}, bodySummary : {NULL, <<>>},
     body : {TEXT_MARKUP}, updatedAt : Timestamps]

NormalizedItems ==
    [id : {TYPE_SHOW \o <<"_">> \o HANDLE_OPERA}, title : {TEXT_A, HANDLE_OPERA},
     description : {<<>>, TEXT_MARKUP}, link : {TEXT_URL},
     imageUrl : {NULL, IMG_URL}, updatedAt : Timestamps, type : {TYPE_SHOW}]

XmlIdle ==
    /\ feedKind = "none"
    /\ records = <<>>
    /\ feed = <<>>

\* A feed of no record or of one.
InitXml ==
    /\ feedKind \in {"blog", "pages", "metaobjects"}
    /\ records \in {<<>>} \cup
            {<<r>> : r \in CASE feedKind = "blog" -> Articles
                             [] feedKind = "pages" -> Pages
                             [] OTHER -> NormalizedItems}
    /\ feed = <<>>

GenerateBlog ==
    /\ feedKind = "blog"
    /\ feed = <<>>
    /\ feed' = <<generateBlogXML(records)>>
    /\ UNCHANGED <<feedKind, records>>
    /\ UNCHANGED <<orchVars, normVars>>

GeneratePages ==
    /\ feedKind = "pages"
    /\ feed = <<>>
    /\ feed' = <<generatePagesXML(records)>>
    /\ UNCHANGED <<feedKind, records>>
    /\ UNCHANGED <<orchVars, normVars>>

GenerateMetaobjects ==
    /\ feedKind = "metaobjects"
    /\ feed = <<>>
    /\ feed' = <<generateMetaobjectsXML(records, TYPE_SHOW)>>
    /\ UNCHANGED <<feedKind, records>>
    /\ UNCHANGED <<orchVars, normVars>>

\* ---------------------------------------------------------- specifications
\* The run of main.
Init == InitOrch /\ NormIdle /\ XmlIdle

Next ==
    \/ MainStart
    \/ \E f \in Fetches : DelayElapsed(f)
    \/ \E f \in Fetches : Response(f)
    \/ Normalize
    \/ WriteFeed
    \/ Report

Spec == Init /\ [][Next]_vars

\* Calls of normalizeMetaobject on bounded inputs.
InitNormalizer == OrchIdle /\ InitNorm /\ XmlIdle

NextNormalizer == NormalizeCall

SpecNormalizer == InitNormalizer /\ [][NextNormalizer]_vars

\* Calls of the three serializers on bounded inputs.
InitSerializer == OrchIdle /\ NormIdle /\ InitXml

NextSerializer == GenerateBlog \/ GeneratePages \/ GenerateMetaobjects

SpecSerializer == InitSerializer /\ [][NextSerializer]_vars

\* The records of the first k pages of a collection, in page order.
RecordsOfPages(coll, k) ==
    Concat([i \in 1..k |-> [j \in DOMAIN coll[i].edges |-> coll[i].edges[j].node]])

\* The number of pages among the responses given to a fetch.
PagesServed(f) == Len(SelectSeq(served[f], LAMBDA o : o = "page"))

\* C1: every paginated fetch issues one request per upstream page, the first
\* with a null cursor and each later one with the endCursor of the response
\* before it, never asks beyond the page that reports no next page, holds at
\* every moment the records of the pages received so far in page order, and
\* returns the concatenation of all the pages.
C1_PaginationAccumulates ==
    \A f \in Fetches :
        LET reqs == RequestsOf(log[f])
        IN /\ Len(reqs) <= Len(upstream[f])
           /\ \A i \in DOMAIN reqs :
                reqs[i] = IF i = 1 THEN NULL ELSE upstream[f][i - 1].pageInfo.endCursor
           /\ acc[f] = RecordsOfPages(upstream[f], PagesServed(f))
           /\ fpc[f] = "done" =>
                /\ Len(reqs) = Len(upstream[f])
                /\ acc[f] = RecordsOfPages(upstream[f], Len(upstream[f]))

\* A fetch returned the five records of a collection of three pages of two,
\* two and one records.
C1_Witness ==
    \E f \in Fetches :
        /\ fpc[f] = "done"
        /\ Len(upstream[f]) = 3
        /\ Len(upstream[f][1].edges) = 2
        /\ Len(upstream[f][3].edges) = 1
        /\ Len(acc[f]) = 5

\* C2: a request is issued only when both configuration values are set; a run
\* that lacks one of them ends in its first step with status 1, no request
\* issued and no file written.
C2_ConfigCheckedFirst ==
    /\ (\E f \in Fetches : log[f] # <<>> \/ served[f] # <<>>) =>
            Truthy(env.domain) /\ Truthy(env.token)
    /\ (pc # "start" /\ ~(Truthy(env.domain) /\ Truthy(env.token))) =>
            /\ exitStatus = <<1>>
            /\ written = <<>>
            /\ \A f \in Fetches : log[f] = <<>> /\ fpc[f] = "idle"

\* A run with the token set and the domain unset has ended.
C2_Witness ==
    /\ env.domain = NULL
    /\ Truthy(env.token)
    /\ pc = "exited"
    /\ exitStatus = <<1>>

\* C3: a failed response is the last response its fetch gets, the fetch has
\* issued no request after the one it answers, and the run has ended with
\* status 1; a run ends with status 0 only when every fetch returned, every
\* response was a page and the four files are written.
C3_NoRetry ==
    /\ \A f \in Fetches : \A i \in DOMAIN served[f] :
          served[f][i] # "page" =>
              /\ i = Len(served[f])
              /\ Len(RequestsOf(log[f])) = i
              /\ fpc[f] = "failed"
              /\ exitStatus = <<1>>
    /\ exitStatus = <<0>> =>
          /\ \A f \in Fetches :
                fpc[f] = "done" /\ \A i \in DOMAIN served[f] : served[f][i] = "page"
          /\ written = FEEDS

\* A metaobject fetch failed on its second page while the article fetch was
\* still awaiting a response.
C3_Witness ==
    /\ Len(served["shows"]) = 2
    /\ served["shows"][2] \in {"http_error", "graphql_errors", "missing_collection"}
    /\ fpc["articles"] = "await"
    /\ exitStatus = <<1>>

\* C9: every request of a metaobject fetch comes right after a completed delay
\* of that fetch, the article and page fetches complete no delay, and while a
\* metaobject fetch waits in its delay every other running fetch can take its
\* next step.
C9_DelayPerMetaobjectPage ==
    /\ \A f \in Fetches : \A i \in DOMAIN log[f] :
          IF IsMetaobjectFetch(f)
          THEN log[f][i].kind = "request" => (i > 1 /\ log[f][i - 1].kind = "delay")
          ELSE log[f][i].kind = "request"
    /\ \A f \in Fetches : (pc = "fetching" /\ IsMetaobjectFetch(f) /\ fpc[f] = "delay") =>
          \A g \in Fetches \ {f} :
              /\ fpc[g] = "await" => ENABLED Response(g)
              /\ fpc[g] = "delay" => ENABLED DelayElapsed(g)

\* The exhibitor fetch waits in the delay before its second page while the
\* article fetch has issued two requests and the page fetch has returned.
C9_Witness ==
    /\ pc = "fetching"
    /\ fpc["exhibitor"] = "delay"
    /\ Len(RequestsOf(log["exhibitor"])) = 1
    /\ Len(RequestsOf(log["articles"])) = 2
    /\ fpc["pages"] = "done"

\* C10: the files written are a prefix of blogs, pages, exhibitors, shows; a
\* file is written only after all four fetches returned, and none when a fetch
\* failed.
C10_WritesAfterAllFetches ==
    /\ Len(written) <= Len(FEEDS)
    /\ \A i \in DOMAIN written : written[i] = FEEDS[i]
    /\ written # <<>> => \A f \in Fetches : fpc[f] = "done"
    /\ (\E f \in Fetches : fpc[f] = "failed") => written = <<>>

\* A run failed after it wrote the first two files.
C10_Witness ==
    /\ exitStatus = <<1>>
    /\ written = <<FEEDS[1], FEEDS[2]>>
\* The candidate keys of a slot for a type: its hint keys, then the generic keys.
CandidateKeys(type, slot) ==
    HintKeys(HintsOf(type), slot) \o METAOBJECT_FIELD_DEFAULTS[slot]

\* The positions of the candidate keys whose field has a value that is
\* neither null nor undefined.
SuppliedAt(lookup, keys) ==
    {i \in DOMAIN keys : keys[i] \in DOMAIN lookup /\ lookup[keys[i]].value # NULL}

\* The positions of the candidate keys whose field has a non-empty value.
NonEmptyAt(lookup, keys) ==
    {i \in SuppliedAt(lookup, keys) : lookup[keys[i]].value # <<>>}

Least(I) == CHOOSE i \in I : \A j \in I : i <= j

\* The value the first supplying candidate key gives, the default when no
\* candidate key supplies one.
FirstSuppliedOr(lookup, keys, default) ==
    IF SuppliedAt(lookup, keys) = {} THEN default
    ELSE lookup[keys[Least(SuppliedAt(lookup, keys))]].value

\* The link the normalizer is to construct when no field supplies one.
ConstructedLink ==
    LET seg == IF inPathSegment # NULL THEN inPathSegment
               ELSE IF inType[Len(inType)] = "s" THEN inType
               ELSE Append(inType, "s")
    IN SITE_URL \o <<"/">> \o seg \o <<"/">> \o inMetaobject.handle

\* The description the normalizer is to construct when no field supplies one.
ConstructedDescription ==
    Join([i \in DOMAIN inMetaobject.fields |-> inMetaobject.fields[i].value], <<" ">>)

\* C4: for the title, the description and the link, the normalizer returns
\* the value of the first candidate key - hint keys, then generic keys - whose
\* field has a value that is neither null nor undefined, the empty string
\* included, and the structural default only when there is none.
C4_FirstNonNullCandidateWins ==
    item # NULL_OBJECT =>
        LET lookup == buildFieldLookup(inMetaobject.fields)
        IN /\ item.title =
                FirstSuppliedOr(lookup, CandidateKeys(inType, "title"), inMetaobject.handle)
           /\ item.description =
                FirstSuppliedOr(lookup, CandidateKeys(inType, "description"),
                                ConstructedDescription)
           /\ item.link =
                FirstSuppliedOr(lookup, CandidateKeys(inType, "link"), ConstructedLink)

\* A well-formed absolute URL: an http or https scheme, then a non-empty rest
\* without a space.
IsAbsoluteUrl(text) ==
    /\ \E scheme \in {<<"h","t","t","p","s",":","/","/">>, <<"h","t","t","p",":","/","/">>} :
            StartsWith(text, scheme) /\ Len(text) > Len(scheme)
    /\ \A i \in DOMAIN text : text[i] # " "

YieldedUrl(field) ==
    LET ref == field.reference
    IN IF ref = NULL_OBJECT THEN NULL
       ELSE IF "image" \in DOMAIN ref /\ ref.image.url \notin {NULL, <<>>} THEN ref.image.url
       ELSE IF /\ "url" \in DOMAIN ref
               /\ "mimeType" \in DOMAIN ref
               /\ ref.url \notin {NULL, <<>>}
               /\ Len(ref.mimeType) >= 6
               /\ SubSeq(ref.mimeType, 1, 6) = <<"i","m","a","g","e","/">>
            THEN ref.url
       ELSE NULL

\* C6: imageUrl is the URL yielded by the first image candidate key - hint
\* keys, then generic keys - whose field exists and yields one; keys whose
\* field is absent or yields none are passed over; it is null when no
\* candidate yields a URL, as for a lone generic file that is no image.
C6_FirstYieldingImageKey ==
    item # NULL_OBJECT =>
        LET lookup == buildFieldLookup(inMetaobject.fields)
            keys == CandidateKeys(inType, "image")
            yielding == {i \in DOMAIN keys :
                            keys[i] \in DOMAIN lookup /\ YieldedUrl(lookup[keys[i]]) # NULL}
        IN item.imageUrl = IF yielding = {} THEN NULL
                           ELSE YieldedUrl(lookup[keys[Least(yielding)]])

\* The hinted image field holds a PDF and is passed over; the generic image
\* field holds a PNG file, whose URL is returned.
C6_Witness ==
    /\ item # NULL_OBJECT
    /\ inType = TYPE_EXHIBITOR
    /\ Len(inMetaobject.fields) = 2
    /\ inMetaobject.fields[1].key = "store_logo_thumbnail"
    /\ inMetaobject.fields[1].reference = [url |-> PDF_URL, mimeType |-> MIME_PDF]
    /\ inMetaobject.fields[2].key = "image"
    /\ inMetaobject.fields[2].reference = [url |-> PNG_URL, mimeType |-> MIME_PNG]
    /\ item.imageUrl = PNG_URL

\* C7: when no link candidate field has a value, the link is the site base
\* URL, "/", the segment, "/" and the handle, the segment being the
\* pathSegment given and otherwise the type with "s" appended unless it ends
\* in "s"; type "show", handle "opera-night" and segment "pages/shows" give
\* "https://latitudes.online/pages/shows/opera-night".
C7_LinkDefault ==
    (item # NULL_OBJECT
     /\ SuppliedAt(buildFieldLookup(inMetaobject.fields), CandidateKeys(inType, "link")) = {}) =>
        /\ item.link = ConstructedLink
        /\ (inType = TYPE_SHOW /\ inPathSegment = SEGMENT_SHOWS /\ inMetaobject.handle = HANDLE_OPERA) =>
                item.link = <<"h","t","t","p","s",":","/","/","l","a","t","i","t","u","d","e","s",".","o","n","l","i","n","e","/","p","a","g","e","s","/","s","h","o","w","s","/","o","p","e","r","a","-","n","i","g","h","t">>

\* The show "opera-night", normalized with segment "pages/shows" and a title
\* field only, has the example's link.
C7_Witness ==
    /\ item # NULL_OBJECT
    /\ inType = TYPE_SHOW
    /\ inPathSegment = SEGMENT_SHOWS
    /\ Len(inMetaobject.fields) = 1
    /\ inMetaobject.fields[1].key = "title"
    /\ item.link = <<"h","t","t","p","s",":","/","/","l","a","t","i","t","u","d","e","s",".","o","n","l","i","n","e","/","p","a","g","e","s","/","s","h","o","w","s","/","o","p","e","r","a","-","n","i","g","h","t">>
\* A value the source record supplies: neither null, undefined nor empty.
Supplied(v) == v \notin {NULL, <<>>}

\* The elements of an item block that carry the tag.
ElementsOf(block, tag) == SelectSeq(block, LAMBDA e : e.tag = tag)

OptionalTags == {"g:image_link", "pubDate", "author", "category"}

\* The number of elements each optional tag is to have in the item block of
\* a record: one per value the record supplies.
ExpectedCount(kind, r, tag) ==
    LET one(v) == IF Supplied(v) THEN 1 ELSE 0
    IN CASE kind = "blog" /\ tag = "g:image_link" -> one(Get(r.image, "url"))
         [] kind = "blog" /\ tag = "pubDate" -> one(r.publishedAt)
         [] kind = "blog" /\ tag = "author" -> one(Get(r.author, "name"))
         [] kind = "blog" /\ tag = "category" -> Len(SelectSeq(r.tags, Supplied))
         [] kind = "pages" /\ tag = "pubDate" -> one(r.updatedAt)
         [] kind = "metaobjects" /\ tag = "g:image_link" -> one(r.imageUrl)
         [] kind = "metaobjects" /\ tag = "pubDate" -> one(r.updatedAt)
         [] OTHER -> 0

\* C8: in the three serializers every item block carries an optional element
\* (image link, pubDate, author, category) exactly for the values its record
\* supplies, and no optional element has empty content.
C8_OptionalOmittedNeverEmpty ==
    feed # <<>> =>
        \A i \in DOMAIN feed[1] :
            /\ \A tag \in OptionalTags :
                  Len(ElementsOf(feed[1][i], tag)) = ExpectedCount(feedKind, records[i], tag)
            /\ \A k \in DOMAIN feed[1][i] :
                  feed[1][i][k].tag \in OptionalTags => feed[1][i][k].content # <<>>
====
